---------------------------- MODULE Spec2Model ----------------------------
(***************************************************************************)
(* ChatOPT (src/chatopt.py): generate_questions and generate_masterplan.   *)
(*                                                                         *)
(* A Python str is modelled as a sequence of one-character strings; the    *)
(* fixed messages of the program are kept as one piece each.  The texts    *)
(* the model feeds in are written over the characters                      *)
(*     [ ] { } , : " space newline _ / and lower-case letters,             *)
(* so json.loads is modelled for that alphabet: no backslash escapes.      *)
(*                                                                         *)
(* A decoded JSON value is a record [t |-> tag, v |-> payload]:            *)
(*   "str"  v = the characters          "num"  v = the matched characters  *)
(*   "bool" v = TRUE / FALSE            "null" v = <<>>                    *)
(*   "list" v = sequence of values                                         *)
(*   "dict" v = sequence of [k |-> key value, v |-> value], in insertion   *)
(*              order, keys unique (a Python dict).                        *)
(*                                                                         *)
(* Where a result is used more than once it is bound by                    *)
(*     CHOOSE y \in { F(x) : x \in {e} } : TRUE                             *)
(* which is LET x == e IN F(x) with e evaluated exactly once.              *)
(***************************************************************************)
EXTENDS Integers, Sequences, FiniteSets, TLC

---------------------------------------------------------------------------
(* Python values *)

PyNone == [t |-> "null", v |-> <<>>]
PyStr(s) == [t |-> "str", v |-> s]
PyBool(b) == [t |-> "bool", v |-> b]
PyNum(s) == [t |-> "num", v |-> s]
PyList(xs) == [t |-> "list", v |-> xs]
PyDict(ps) == [t |-> "dict", v |-> ps]

\* Truthiness, as `x or y` tests it.
Truthy(x) ==
    CASE x.t = "null" -> FALSE
      [] x.t = "bool" -> x.v
      [] x.t = "num"  -> \E i \in 1..Len(x.v) : x.v[i] \in {"1","2","3","4","5","6","7","8","9"}
      [] OTHER        -> Len(x.v) > 0

\* x or y
PyOr(x, y) == IF Truthy(x) THEN x ELSE y

---------------------------------------------------------------------------
(* str methods *)

Whitespace == {" ", "\n", "\t", "\r"}

RECURSIVE LStripFrom(_, _)
LStripFrom(s, i) ==
    IF i <= Len(s) /\ s[i] \in Whitespace THEN LStripFrom(s, i + 1) ELSE i

RECURSIVE RStripFrom(_, _)
RStripFrom(s, j) ==
    IF j >= 1 /\ s[j] \in Whitespace THEN RStripFrom(s, j - 1) ELSE j

\* s.strip()
Strip(s) == SubSeq(s, LStripFrom(s, 1), RStripFrom(s, Len(s)))

\* The first position from i on that holds a character of cs, Len(s) + 1 when
\* there is none.
NextIndex(s, i, cs) ==
    CHOOSE y \in { IF at = {} THEN Len(s) + 1 ELSE CHOOSE j \in at : \A k \in at : j <= k :
                   at \in { { j \in i..Len(s) : s[j] \in cs } } } : TRUE

\* s.split('\n'): the pieces between newlines, empty pieces kept.
RECURSIVE SplitFrom(_, _, _)
SplitFrom(s, i, acc) ==
    CHOOSE y \in { IF j > Len(s) THEN Append(acc, SubSeq(s, i, Len(s)))
                   ELSE SplitFrom(s, j + 1, Append(acc, SubSeq(s, i, j - 1))) :
                   j \in { NextIndex(s, i, {"\n"}) } } : TRUE

SplitLines(s) == SplitFrom(s, 1, <<>>)

StartsWith(s, c) == Len(s) > 0 /\ s[1] = c
EndsWith(s, c) == Len(s) > 0 /\ s[Len(s)] = c

\* Whether the characters of lit stand in s at position i.
MatchAt(s, i, lit) ==
    /\ i + Len(lit) - 1 <= Len(s)
    /\ \A k \in 1..Len(lit) : s[i + k - 1] = lit[k]

---------------------------------------------------------------------------
(* json.loads *)

Digits == {"0","1","2","3","4","5","6","7","8","9"}

JFail(i) == [ok |-> FALSE, val |-> PyNone, pos |-> i]
JOk(v, i) == [ok |-> TRUE, val |-> v, pos |-> i]

\* The decoder's whitespace skip: the first position from i that holds no whitespace.
SkipWs(s, i) == LStripFrom(s, i)

\* py_scanstring after the opening quote at i - 1: characters up to the closing
\* quote; a control character inside the string is an error (strict mode).
RECURSIVE ScanString(_, _, _)
ScanString(s, i, acc) ==
    IF i > Len(s) THEN JFail(i)
    ELSE IF s[i] = "\"" THEN JOk(acc, i + 1)
    ELSE IF s[i] \in {"\n", "\t", "\r"} THEN JFail(i)
    ELSE ScanString(s, i + 1, Append(acc, s[i]))

RECURSIVE DigitsEnd(_, _)
DigitsEnd(s, i) == IF i <= Len(s) /\ s[i] \in Digits THEN DigitsEnd(s, i + 1) ELSE i

\* NUMBER_RE = (-?(?:0|[1-9]\d*))(\.\d+)?([eE][-+]?\d+)?  matched at i:
\* the position after the match, or i when there is none.
NumberEnd(s, i) ==
    LET a == IF i <= Len(s) /\ s[i] = "-" THEN i + 1 ELSE i
        b == IF a <= Len(s) /\ s[a] = "0" THEN a + 1
             ELSE IF a <= Len(s) /\ s[a] \in Digits THEN DigitsEnd(s, a)
             ELSE a
        c == IF b + 1 <= Len(s) /\ s[b] = "." /\ s[b + 1] \in Digits
             THEN DigitsEnd(s, b + 1) ELSE b
        d == IF c <= Len(s) /\ s[c] \in {"e", "E"}
             THEN LET e == IF c + 1 <= Len(s) /\ s[c + 1] \in {"-", "+"} THEN c + 2 ELSE c + 1
                  IN  IF e <= Len(s) /\ s[e] \in Digits THEN DigitsEnd(s, e) ELSE c
             ELSE c
    IN  IF b = a THEN i ELSE d

\* dict[k] = v on the pairs of a dict: a key already there keeps its place.
DictSet(ps, k, v) ==
    IF \E n \in 1..Len(ps) : ps[n].k = k
    THEN [n \in 1..Len(ps) |-> IF ps[n].k = k THEN [k |-> k, v |-> v] ELSE ps[n]]
    ELSE Append(ps, [k |-> k, v |-> v])

RECURSIVE ScanOnce(_, _)
RECURSIVE ArrayItems(_, _, _)
RECURSIVE ObjectItems(_, _, _)

\* JSONArray after the value r scanned at i: ',' or ']' at j, the first
\* position after r that holds no whitespace.
ArrayNext(s, i, acc, r, j) ==
    IF ~r.ok THEN JFail(i)
    ELSE IF j > Len(s) THEN JFail(j)
    ELSE IF s[j] = "]" THEN JOk(PyList(Append(acc, r.val)), j + 1)
    ELSE IF s[j] = "," THEN ArrayItems(s, SkipWs(s, j + 1), Append(acc, r.val))
    ELSE JFail(j)

\* JSONArray, at the position of a value: value, then ',' or ']'.
ArrayItems(s, i, acc) ==
    CHOOSE y \in { ArrayNext(s, a.i, a.acc, a.r, SkipWs(s, a.r.pos)) :
                   a \in { [i |-> i, acc |-> acc, r |-> ScanOnce(s, i)] } } : TRUE

\* JSONObject after a key's value r: the pair is set in the dict, then ',' or
\* '}' at j.
ObjectNext(s, c, d, r, j) ==
    IF ~r.ok THEN JFail(c)
    ELSE IF j > Len(s) THEN JFail(j)
    ELSE IF s[j] = "}" THEN JOk(PyDict(d), j + 1)
    ELSE IF s[j] = "," THEN ObjectItems(s, SkipWs(s, j + 1), d)
    ELSE JFail(j)

\* JSONObject after the key k scanned at i: ':' at c, then the value.
ObjectValue(s, i, acc, k, c) ==
    IF ~k.ok THEN JFail(i)
    ELSE IF c > Len(s) \/ s[c] # ":" THEN JFail(c)
    ELSE CHOOSE y \in { ObjectNext(s, c, DictSet(acc, PyStr(k.val), r.val), r, SkipWs(s, r.pos)) :
                        r \in { ScanOnce(s, SkipWs(s, c + 1)) } } : TRUE

\* JSONObject, at the position of a key's opening quote: key, ':', value, then ',' or '}'.
ObjectItems(s, i, acc) ==
    CHOOSE y \in { IF a.i > Len(s) \/ s[a.i] # "\"" THEN JFail(a.i)
                   ELSE CHOOSE z \in { ObjectValue(s, a.i, a.acc, k, SkipWs(s, k.pos)) :
                                       k \in { ScanString(s, a.i + 1, <<>>) } } : TRUE :
                   a \in { [i |-> i, acc |-> acc] } } : TRUE

\* scan_once on position i, a position the caller has computed.
ScanAt(s, i) ==
    IF i > Len(s) THEN JFail(i)
    ELSE IF s[i] = "\"" THEN
        CHOOSE y \in { IF r.ok THEN JOk(PyStr(r.val), r.pos) ELSE JFail(i) :
                       r \in { ScanString(s, i + 1, <<>>) } } : TRUE
    ELSE IF s[i] = "{" THEN
        CHOOSE y \in { IF j <= Len(s) /\ s[j] = "}" THEN JOk(PyDict(<<>>), j + 1)
                       ELSE ObjectItems(s, j, <<>>) :
                       j \in { SkipWs(s, i + 1) } } : TRUE
    ELSE IF s[i] = "[" THEN
        CHOOSE y \in { IF j <= Len(s) /\ s[j] = "]" THEN JOk(PyList(<<>>), j + 1)
                       ELSE ArrayItems(s, j, <<>>) :
                       j \in { SkipWs(s, i + 1) } } : TRUE
    ELSE IF MatchAt(s, i, <<"n","u","l","l">>) THEN JOk(PyNone, i + 4)
    ELSE IF MatchAt(s, i, <<"t","r","u","e">>) THEN JOk(PyBool(TRUE), i + 4)
    ELSE IF MatchAt(s, i, <<"f","a","l","s","e">>) THEN JOk(PyBool(FALSE), i + 5)
    ELSE IF NumberEnd(s, i) > i THEN
        CHOOSE y \in { JOk(PyNum(SubSeq(s, i, e - 1)), e) : e \in { NumberEnd(s, i) } } : TRUE
    ELSE IF MatchAt(s, i, <<"N","a","N">>) THEN JOk(PyNum(<<"N","a","N">>), i + 3)
    ELSE IF MatchAt(s, i, <<"I","n","f","i","n","i","t","y">>)
         THEN JOk(PyNum(SubSeq(s, i, i + 7)), i + 8)
    ELSE IF MatchAt(s, i, <<"-","I","n","f","i","n","i","t","y">>)
         THEN JOk(PyNum(SubSeq(s, i, i + 8)), i + 9)
    ELSE JFail(i)

\* scan_once: one JSON value starting exactly at i.
ScanOnce(s, i) == CHOOSE y \in { ScanAt(s, p) : p \in {i} } : TRUE

\* json.loads(s): [ok |-> TRUE, val |-> the value], or ok = FALSE for JSONDecodeError
\* (no value, or extra data after it).
JsonLoads(s) ==
    CHOOSE y \in { IF r.ok /\ SkipWs(s, r.pos) = Len(s) + 1
                   THEN [ok |-> TRUE, val |-> r.val]
                   ELSE [ok |-> FALSE, val |-> PyNone] :
                   r \in { ScanOnce(s, SkipWs(s, 1)) } } : TRUE

---------------------------------------------------------------------------
(* Exceptions and outcomes *)

\* The classes an exception of each type is an instance of.
Bases(type) ==
    CASE type = "JSONDecodeError" -> {"JSONDecodeError", "ValueError", "Exception"}
      [] type = "ValidationError" -> {"ValidationError", "ValueError", "Exception"}
      [] type = "ValueError"      -> {"ValueError", "Exception"}
      [] type = "TypeError"       -> {"TypeError", "Exception"}
      [] OTHER                    -> {type, "Exception"}

Return(v) == [kind |-> "return", value |-> v, exc |-> [type |-> "", msg |-> <<>>]]
Raise(type, msg) == [kind |-> "raise", value |-> PyNone, exc |-> [type |-> type, msg |-> msg]]
NoResult == [kind |-> "none", value |-> PyNone, exc |-> [type |-> "", msg |-> <<>>]]

\* Whether outcome r is an exception that `except classes` catches.
Caught(r, classes) == r.kind = "raise" /\ Bases(r.exc.type) \cap classes # {}

---------------------------------------------------------------------------
(* class APISpec(BaseModel); pydantic validates the keyword arguments *)

DictHas(ps, key) == \E n \in 1..Len(ps) : ps[n].k = PyStr(key)
DictGet(ps, key) == ps[CHOOSE n \in 1..Len(ps) : ps[n].k = PyStr(key)].v

KeyName == <<"n","a","m","e">>
KeyDescription == <<"d","e","s","c","r","i","p","t","i","o","n">>
KeyEndpoints == <<"e","n","d","p","o","i","n","t","s">>
KeyBuildInHouse == <<"b","u","i","l","d","_","i","n","_","h","o","u","s","e">>
KeyReason == <<"r","e","a","s","o","n">>

Coerced(v) == [ok |-> TRUE, val |-> v]
NotCoerced == [ok |-> FALSE, val |-> PyNone]

\* A str field.  A str is taken as it is; pydantic 1.x also turns a number or a
\* bool into its str() (v1 = TRUE), pydantic 2.x refuses them.  str() of a number
\* is given for a canonical integer literal.
StrField(x, v1) ==
    CASE x.t = "str"  -> Coerced(x)
      [] x.t = "num"  -> IF v1 THEN Coerced(PyStr(x.v)) ELSE NotCoerced
      [] x.t = "bool" -> IF v1 THEN Coerced(PyStr(IF x.v THEN <<"T","r","u","e">>
                                                         ELSE <<"F","a","l","s","e">>))
                         ELSE NotCoerced
      [] OTHER        -> NotCoerced

BoolTrueStrings ==
    { <<"1">>, <<"o","n">>, <<"t">>, <<"t","r","u","e">>, <<"y">>, <<"y","e","s">> }
BoolFalseStrings ==
    { <<"0">>, <<"o","f","f">>, <<"f">>, <<"f","a","l","s","e">>, <<"n">>, <<"n","o">> }

\* A bool field: a bool, the numbers 0 and 1, and the (lower-case) words above.
BoolField(x) ==
    CASE x.t = "bool" -> Coerced(x)
      [] x.t \in {"num", "str"} ->
            IF x.v \in BoolTrueStrings THEN Coerced(PyBool(TRUE))
            ELSE IF x.v \in BoolFalseStrings THEN Coerced(PyBool(FALSE))
            ELSE NotCoerced
      [] OTHER -> NotCoerced

\* dict(e) of pydantic 1.x's dict validator on a value that is no dict: e must be
\* an iterable of pairs.
PairLike(p) ==
    /\ p.t \in {"list", "str"}
    /\ Len(p.v) = 2
    /\ p.t = "list" => p.v[1].t \notin {"list", "dict"}
PairKey(p) == IF p.t = "list" THEN p.v[1] ELSE PyStr(<<p.v[1]>>)
PairVal(p) == IF p.t = "list" THEN p.v[2] ELSE PyStr(<<p.v[2]>>)

RECURSIVE DictOfPairs(_, _, _)
DictOfPairs(ps, n, acc) ==
    IF n > Len(ps) THEN acc
    ELSE CHOOSE y \in { DictOfPairs(ps, n + 1, d) :
                        d \in { DictSet(acc, PairKey(ps[n]), PairVal(ps[n])) } } : TRUE

\* One element of List[Dict].
DictItem(e, v1) ==
    CASE e.t = "dict" -> Coerced(e)
      [] e.t = "list" /\ v1 /\ (\A n \in 1..Len(e.v) : PairLike(e.v[n]))
            -> Coerced(PyDict(DictOfPairs(e.v, 1, <<>>)))
      [] e.t = "str" /\ v1 /\ Len(e.v) = 0 -> Coerced(PyDict(<<>>))
      [] OTHER -> NotCoerced

\* The List[Dict] field.
ListOfDictField(x, v1) ==
    IF x.t = "list" /\ \A n \in 1..Len(x.v) : DictItem(x.v[n], v1).ok
    THEN Coerced(PyList([n \in 1..Len(x.v) |-> DictItem(x.v[n], v1).val]))
    ELSE NotCoerced

TypeName(x) ==
    CASE x.t = "null" -> "NoneType"
      [] x.t = "num"  -> "int"
      [] OTHER        -> x.t

\* APISpec(**spec): TypeError when spec is no mapping, ValidationError when a
\* field is missing or cannot be coerced; keys that are no fields are ignored.
APISpec(spec, v1) ==
    IF spec.t # "dict"
    THEN Raise("TypeError", <<"APISpec() argument after ** must be a mapping, not ", TypeName(spec)>>)
    ELSE IF /\ DictHas(spec.v, KeyName)
            /\ StrField(DictGet(spec.v, KeyName), v1).ok
            /\ DictHas(spec.v, KeyDescription)
            /\ StrField(DictGet(spec.v, KeyDescription), v1).ok
            /\ DictHas(spec.v, KeyEndpoints)
            /\ ListOfDictField(DictGet(spec.v, KeyEndpoints), v1).ok
            /\ DictHas(spec.v, KeyBuildInHouse)
            /\ BoolField(DictGet(spec.v, KeyBuildInHouse)).ok
            /\ DictHas(spec.v, KeyReason)
            /\ StrField(DictGet(spec.v, KeyReason), v1).ok
    THEN Return([name |-> StrField(DictGet(spec.v, KeyName), v1).val,
                 description |-> StrField(DictGet(spec.v, KeyDescription), v1).val,
                 endpoints |-> ListOfDictField(DictGet(spec.v, KeyEndpoints), v1).val,
                 build_in_house |-> BoolField(DictGet(spec.v, KeyBuildInHouse)).val,
                 reason |-> StrField(DictGet(spec.v, KeyReason), v1).val])
    ELSE Raise("ValidationError", <<"validation error for APISpec">>)

MasterplanResponse(markdown_content, api_specs) ==
    [markdown_content |-> markdown_content, api_specs |-> api_specs]

---------------------------------------------------------------------------
(* PromptTemplate and the chains *)

NotSpecified == PyStr(<<"Not specified">>)

\* PromptTemplate.format: the template's text with the four variables filled in.
\* The fixed text between the variables is kept as one piece each.
FormatPrompt(template, inputs) ==
    <<template, "- Mission Statement/Operating Model: ">> \o inputs.mission_statement.v
      \o <<"- Company Name: ">> \o inputs.company_name.v
      \o <<"- Industry: ">> \o inputs.industry.v
      \o <<"- Business Size: ">> \o inputs.business_size.v
      \o <<"(instructions)">>

\* The dict both operations pass to chain.run.
ChainInputsNoneOnly(a) ==
    [mission_statement |-> a.mission_statement,
     company_name      |-> IF a.company_name = PyNone THEN NotSpecified ELSE a.company_name,
     industry          |-> IF a.industry = PyNone THEN NotSpecified ELSE a.industry,
     business_size     |-> IF a.business_size = PyNone THEN NotSpecified ELSE a.business_size]
ChainInputs(a) ==
    [mission_statement |-> a.mission_statement,
     company_name      |-> PyOr(a.company_name, NotSpecified),
     industry          |-> PyOr(a.industry, NotSpecified),
     business_size     |-> PyOr(a.business_size, NotSpecified)]

---------------------------------------------------------------------------
(* generate_questions *)

CouldNotGenerate == PyList(<<PyStr(<<"Could not generate questions. Please try again.">>)>>)
QuestionsError ==
    PyList(<<PyStr(<<"An error occurred while generating questions. Please try again.">>)>>)

\* The list comprehension of the fallback: the stripped, kept lines of response.strip().
RECURSIVE KeptLinesNoBracketTest(_, _, _)
KeptLinesNoBracketTest(lines, n, acc) ==
    IF n > Len(lines) THEN acc
    ELSE CHOOSE y \in { IF Len(l) > 0
                        THEN KeptLinesNoBracketTest(lines, n + 1, Append(acc, PyStr(l)))
                        ELSE KeptLinesNoBracketTest(lines, n + 1, acc) :
                        l \in { Strip(lines[n]) } } : TRUE

RECURSIVE KeptLines(_, _, _)
KeptLines(lines, n, acc) ==
    IF n > Len(lines) THEN acc
    ELSE CHOOSE y \in { IF Len(l) > 0 /\ ~StartsWith(l, "[") /\ ~EndsWith(l, "]")
                        THEN KeptLines(lines, n + 1, Append(acc, PyStr(l)))
                        ELSE KeptLines(lines, n + 1, acc) :
                        l \in { Strip(lines[n]) } } : TRUE

QuestionsParseStripped(response) ==
    CHOOSE y \in { IF ~r.ok THEN Raise("JSONDecodeError", <<"Expecting value">>)
                   ELSE IF r.val.t = "list"
                   THEN Return(PyList([n \in 1..Len(r.val.v) |->
                            IF r.val.v[n].t = "str" THEN PyStr(Strip(r.val.v[n].v)) ELSE r.val.v[n]]))
                   ELSE Return(CouldNotGenerate) :
                   r \in { JsonLoads(response) } } : TRUE

\* The inner try block: json.loads and the isinstance test.
QuestionsParse(response) ==
    CHOOSE y \in { IF ~r.ok THEN Raise("JSONDecodeError", <<"Expecting value">>)
                   ELSE IF r.val.t = "list" THEN Return(r.val)
                   ELSE Return(CouldNotGenerate) :
                   r \in { JsonLoads(response) } } : TRUE

\* The except block of the fallback: the kept lines, or the placeholder.
QuestionsFallback(response) ==
    CHOOSE y \in { IF Len(lines) > 0 THEN Return(PyList(lines)) ELSE Return(CouldNotGenerate) :
                   lines \in { KeptLines(SplitLines(Strip(response)), 1, <<>>) } } : TRUE

QuestionsExtractLinesForNonList(response) ==
    CHOOSE y \in { IF Caught(r, {"JSONDecodeError"}) \/ (r.kind = "return" /\ r.value = CouldNotGenerate)
                   THEN QuestionsFallback(response) ELSE r :
                   r \in { QuestionsParse(response) } } : TRUE

\* The inner try with its `except json.JSONDecodeError`.
QuestionsExtract(response) ==
    CHOOSE y \in { IF Caught(r, {"JSONDecodeError"}) THEN QuestionsFallback(response) ELSE r :
                   r \in { QuestionsParse(response) } } : TRUE

\* The outer try block: the chain's answer, then the extraction.
QuestionsBody(chain_outcome) ==
    IF chain_outcome.kind = "raise" THEN chain_outcome
    ELSE QuestionsExtract(chain_outcome.value)

\* generate_questions, with its `except Exception`.
GenerateQuestionsResult(chain_outcome) ==
    CHOOSE y \in { IF Caught(r, {"Exception"}) THEN Return(QuestionsError) ELSE r :
                   r \in { QuestionsBody(chain_outcome) } } : TRUE

---------------------------------------------------------------------------
(* generate_masterplan *)

Marker == <<"\"","n","a","m","e","\"",":">>

\* The pattern \[\s*{\s*"name": matched at position i.
MarkerAt(s, i) ==
    /\ i <= Len(s) /\ s[i] = "["
    /\ LET j == SkipWs(s, i + 1)
       IN  /\ j <= Len(s) /\ s[j] = "{"
           /\ MatchAt(s, SkipWs(s, j + 1), Marker)

\* re.search: the start of the leftmost match, 0 when there is none.
ReSearch(s) ==
    CHOOSE y \in { IF at = {} THEN 0 ELSE CHOOSE i \in at : \A k \in at : i <= k :
                   at \in { { i \in 1..Len(s) : MarkerAt(s, i) } } } : TRUE

\* The bracket loop over json_content, from bracket to bracket: the index of the
\* ']' that brings the count back to zero, or Len(s) when the loop ends without
\* a break.
RECURSIVE BracketEnd(_, _, _)
BracketEnd(s, i, bracket_count) ==
    CHOOSE y \in { IF a.j > Len(s) THEN Len(s)
                   ELSE IF s[a.j] = "[" THEN BracketEnd(s, a.j + 1, a.n + 1)
                   ELSE IF a.n - 1 = 0 THEN a.j
                   ELSE BracketEnd(s, a.j + 1, a.n - 1) :
                   a \in { [j |-> NextIndex(s, i, {"[", "]"}), n |-> bracket_count] } } : TRUE

RECURSIVE SpecListSkipInvalid(_, _, _, _)
SpecListSkipInvalid(raw, n, acc, v1) ==
    IF n > Len(raw) THEN Return(acc)
    ELSE CHOOSE y \in { IF a.r.kind = "raise" THEN SpecListSkipInvalid(raw, n + 1, a.acc, v1)
                        ELSE SpecListSkipInvalid(raw, n + 1, Append(a.acc, a.r.value), v1) :
                        a \in { [acc |-> acc, r |-> APISpec(raw[n], v1)] } } : TRUE

\* The list comprehension [APISpec(**spec) for spec in api_specs_raw]: the
\* first exception ends it.
RECURSIVE SpecList(_, _, _, _)
SpecList(raw, n, acc, v1) ==
    IF n > Len(raw) THEN Return(acc)
    ELSE CHOOSE y \in { IF a.r.kind = "raise" THEN a.r
                        ELSE SpecList(raw, n + 1, Append(a.acc, a.r.value), v1) :
                        a \in { [acc |-> acc, r |-> APISpec(raw[n], v1)] } } : TRUE

\* No match: markdown_content and api_specs keep their first values.
NoJsonFoundStripped(response) == Return(MasterplanResponse(Strip(response), <<>>))
NoJsonFound(response) == Return(MasterplanResponse(response, <<>>))

\* markdown_content = response[:json_start].strip(), json_start counted from 1 here.
MarkdownBeforeKeepsJson(response, json_start) == Strip(response)
MarkdownBefore(response, json_start) == Strip(SubSeq(response, 1, json_start - 1))

\* The parse of json_content, the text from json_start (counted from 1 here)
\* to the bracket that closes the array.
MasterplanLoad(response, json_start, json_content, v1) ==
    CHOOSE y \in { IF ~loaded.ok THEN Raise("JSONDecodeError", <<"Expecting value">>)
                   ELSE CHOOSE z \in { IF specs.kind = "raise" THEN specs
                                       ELSE Return(MasterplanResponse(
                                                MarkdownBefore(response, json_start), specs.value)) :
                                       specs \in { SpecList(loaded.val.v, 1, <<>>, v1) } } : TRUE :
                   loaded \in { JsonLoads(json_content) } } : TRUE

\* The inner try block.
MasterplanParse(response, v1) ==
    CHOOSE y \in { IF json_start = 0 THEN NoJsonFound(response)
                   ELSE CHOOSE z \in { MasterplanLoad(response, json_start, json_content, v1) :
                            json_content \in
                              { CHOOSE c \in { SubSeq(tail, 1, BracketEnd(tail, 1, 0)) :
                                    tail \in { SubSeq(response, json_start, Len(response)) } } : TRUE }
                          } : TRUE :
                   json_start \in { ReSearch(response) } } : TRUE

\* The inner try with its `except (json.JSONDecodeError, ValueError)`:
\* markdown_content still holds the response there.
MasterplanExtract(response, v1) ==
    CHOOSE y \in { IF Caught(r, {"JSONDecodeError", "ValueError"})
                   THEN Return(MasterplanResponse(response, <<>>))
                   ELSE r :
                   r \in { MasterplanParse(response, v1) } } : TRUE

\* The outer try block.
MasterplanBody(chain_outcome, v1) ==
    IF chain_outcome.kind = "raise" THEN chain_outcome
    ELSE MasterplanExtract(chain_outcome.value, v1)

MasterplanErrorPrefix == "An error occurred while generating the masterplan: "

GenerateMasterplanResultValueErrorOnly(chain_outcome, v1) ==
    CHOOSE y \in { IF Caught(r, {"ValueError"})
                   THEN Return(MasterplanResponse(<<MasterplanErrorPrefix>> \o r.exc.msg, <<>>))
                   ELSE r :
                   r \in { MasterplanBody(chain_outcome, v1) } } : TRUE

\* generate_masterplan, with its `except Exception`.
GenerateMasterplanResult(chain_outcome, v1) ==
    CHOOSE y \in { IF Caught(r, {"Exception"})
                   THEN Return(MasterplanResponse(<<MasterplanErrorPrefix>> \o r.exc.msg, <<>>))
                   ELSE r :
                   r \in { MasterplanBody(chain_outcome, v1) } } : TRUE

---------------------------------------------------------------------------
(* The inputs of the model: call arguments and answers of the chain *)

MaxSpecs == 2
MaxQuestions == 2
MaxLines == 2

\* Sequences over S of length 0..n.
SeqsUpTo(S, n) == UNION { [1..k -> S] : k \in 0..n }

RECURSIVE Join(_, _, _)
Join(parts, sep, n) ==
    IF n > Len(parts) THEN <<>>
    ELSE (IF n > 1 THEN sep ELSE <<>>) \o parts[n] \o Join(parts, sep, n + 1)

\* The JSON text of a value, as json.dumps writes it with sp after each
\* '[', '{' and ','.
RECURSIVE JsonText(_, _)
JsonText(x, sp) ==
    CASE x.t = "null" -> <<"n","u","l","l">>
      [] x.t = "bool" -> IF x.v THEN <<"t","r","u","e">> ELSE <<"f","a","l","s","e">>
      [] x.t = "num"  -> x.v
      [] x.t = "str"  -> <<"\"">> \o x.v \o <<"\"">>
      [] x.t = "list" ->
            CHOOSE y \in { <<"[">> \o (IF Len(parts) > 0 THEN sp ELSE <<>>)
                                   \o Join(parts, <<",">> \o sp, 1) \o <<"]">> :
                           parts \in { [n \in 1..Len(x.v) |-> JsonText(x.v[n], sp)] } } : TRUE
      [] x.t = "dict" ->
            CHOOSE y \in { <<"{">> \o (IF Len(parts) > 0 THEN sp ELSE <<>>)
                                   \o Join(parts, <<",">> \o sp, 1) \o <<"}">> :
                           parts \in { [n \in 1..Len(x.v) |->
                                         JsonText(x.v[n].k, sp) \o <<":">> \o JsonText(x.v[n].v, sp)] } } : TRUE

\* An APISpec with the given field values, and the JSON object that states it.
MkSpec(n, d, e, b, r) ==
    [name |-> PyStr(n), description |-> PyStr(d), endpoints |-> PyList(e),
     build_in_house |-> PyBool(b), reason |-> PyStr(r)]
SpecObject(a) ==
    PyDict(<< [k |-> PyStr(KeyName), v |-> a.name],
              [k |-> PyStr(KeyDescription), v |-> a.description],
              [k |-> PyStr(KeyEndpoints), v |-> a.endpoints],
              [k |-> PyStr(KeyBuildInHouse), v |-> a.build_in_house],
              [k |-> PyStr(KeyReason), v |-> a.reason] >>)

Endpoint(path) == PyDict(<< [k |-> PyStr(<<"p","a","t","h">>), v |-> PyStr(path)] >>)

\* Valid specifications: two endpoints (a nested array), no endpoint, and one
\* whose description holds a closing bracket.
SpecOrders == MkSpec(<<"o">>, <<"d">>, <<Endpoint(<<"/","o">>), Endpoint(<<"/","p">>)>>, TRUE, <<"c">>)
SpecMail == MkSpec(<<"m">>, <<"a"," ","b">>, <<>>, FALSE, <<>>)
SpecBracket == MkSpec(<<"b">>, <<"a","]">>, <<>>, TRUE, <<"r">>)
ValidSpecs == {SpecOrders, SpecMail, SpecBracket}

\* A record without "reason", and an element that is no object.
NoReasonObject ==
    PyDict(<< [k |-> PyStr(KeyName), v |-> PyStr(<<"n">>)],
              [k |-> PyStr(KeyDescription), v |-> PyStr(<<"d">>)],
              [k |-> PyStr(KeyEndpoints), v |-> PyList(<<>>)],
              [k |-> PyStr(KeyBuildInHouse), v |-> PyBool(TRUE)] >>)

\* The object without one of its keys; arrays with a record that lacks one
\* required field, alone, after and before a valid record.
RequiredKeys == {KeyName, KeyDescription, KeyEndpoints, KeyBuildInHouse, KeyReason}
Without(obj, key) == PyDict(SelectSeq(obj.v, LAMBDA p : p.k # PyStr(key)))
MissingFieldArrays ==
    UNION { { <<Without(SpecObject(SpecMail), k)>>,
              <<SpecObject(SpecOrders), Without(SpecObject(SpecMail), k)>>,
              <<Without(SpecObject(SpecMail), k), SpecObject(SpecOrders)>> } : k \in RequiredKeys }
MissingFieldTexts ==
    { <<"p","l","a","n">> \o JsonText(PyList(arr), <<>>) : arr \in MissingFieldArrays }

ArrayElements == { SpecObject(a) : a \in ValidSpecs } \cup {NoReasonObject, PyNone}

Prefixes == { <<>>, <<"p","l","a","n">>, <<" ","s","e","e"," ","[","a","]","\n","\n">> }
Spacings == { <<>>, <<"\n"," ">> }

\* "<markdown><json-array>" texts.
MasterplanTexts ==
    { md \o JsonText(PyList(arr), sp) :
        md \in Prefixes, arr \in SeqsUpTo(ArrayElements, MaxSpecs), sp \in Spacings }

\* Texts around one array: text after it, a cut-off array, a marker inside the
\* markdown, "name" not the first key, a name that is a bool.
OneArray == JsonText(PyList(<<SpecObject(SpecOrders)>>), <<>>)
OtherMasterplanTexts ==
    { OneArray \o <<" ","e","n","d">>,
      OneArray \o <<"]">>,
      SubSeq(OneArray, 1, Len(OneArray) - 1),
      <<"a"," ","[","{","\"","n","a","m","e","\"",":","]"," ">> \o OneArray,
      <<"p"," ">> \o JsonText(PyList(<<PyDict(<< [k |-> PyStr(KeyReason), v |-> PyStr(<<"r">>)] >>
                                              \o SpecObject(SpecMail).v)>>), <<>>),
      <<"p"," ">> \o JsonText(PyList(<<PyDict(<< [k |-> PyStr(KeyName), v |-> PyBool(TRUE)] >>
                                              \o Tail(SpecObject(SpecMail).v))>>), <<>>),
      <<"p"," ">> \o JsonText(PyList(<<PyDict(Tail(SpecObject(SpecMail).v)
                                              \o << [k |-> PyStr(KeyName), v |-> PyStr(<<"z">>)] >>)>>), <<>>) }

\* Answers to the questions prompt: JSON arrays of strings, other JSON values,
\* and lines of text.
QuestionStrings == { <<"q">>, <<" ","w","h","y"," ">>, <<"a","]">> }
QuestionArrays == { PyList([n \in 1..Len(qs) |-> PyStr(qs[n])]) : qs \in SeqsUpTo(QuestionStrings, MaxQuestions) }
QuestionArrayTexts ==
    { pre \o JsonText(a, sp) \o post :
        a \in QuestionArrays, sp \in Spacings, pre \in {<<>>, <<"\n">>}, post \in {<<>>, <<" ">>} }

OtherJsonTexts ==
    { JsonText(x, <<>>) : x \in { PyNone, PyBool(TRUE), PyStr(<<"q">>), PyDict(<<>>),
                                  PyList(<<PyNone, PyList(<<>>)>>) } }

\* JSON values that are no list: an object, a string, a number, a boolean, null.
NonListValues ==
    { PyNone, PyBool(TRUE), PyBool(FALSE), PyStr(<<"q">>), PyNum(<<"7">>), PyDict(<<>>),
      PyDict(<< [k |-> PyStr(<<"q">>), v |-> PyList(<<PyStr(<<"w">>), PyNum(<<"7">>)>>)] >>) }
NonListTexts ==
    { pre \o JsonText(x, sp) \o post :
        x \in NonListValues, sp \in Spacings, pre \in {<<>>, <<"\n">>}, post \in {<<>>, <<" ">>} }

LineVariants == { <<>>, <<"q">>, <<" ","w","h","y"," ">>, <<"[">>, <<"]">>, <<"[","q">>, <<"\"","q","\"",",">>, <<"q","]"," ">> }
LineTexts == { Join(ls, <<"\n">>, 1) : ls \in SeqsUpTo(LineVariants, MaxLines) }

Responses ==
    MasterplanTexts \cup MissingFieldTexts \cup OtherMasterplanTexts
      \cup QuestionArrayTexts \cup OtherJsonTexts \cup NonListTexts \cup LineTexts

\* What chain.run does: it returns a text or raises.
ChainRaises ==
    { Raise("RuntimeError", <<"Connection error.">>), Raise("ValueError", <<"Missing some input keys">>) }
ChainOutcomes == { Return(t) : t \in Responses } \cup ChainRaises

\* The call's arguments: the mission statement is a str, the others a str or None.
Optionals == { PyNone, PyStr(<<>>), PyStr(<<"a","c","m","e">>) }
Arguments ==
    [mission_statement : { PyStr(<<>>), PyStr(<<"s","h","i","p">>) },
     company_name : Optionals, industry : Optionals, business_size : Optionals]
PlainArguments ==
    [mission_statement |-> PyStr(<<"s","h","i","p">>), company_name |-> PyStr(<<"a","c","m","e">>),
     industry |-> PyNone, business_size |-> PyStr(<<>>)]
FewOutcomes == { Return(OneArray), Return(<<"q">>), Raise("RuntimeError", <<"Connection error.">>) }

---------------------------------------------------------------------------
(* The shared instance and the calls in progress on it *)

\* The attributes __init__ sets on the instance; no method assigns to self.
NewChatOPT == [questions_prompt |-> "questions_prompt", masterplan_prompt |-> "masterplan_prompt"]

\* The callers that may be inside a method of the instance at the same time.
MaxCallers == 2
CallIds == 1..MaxCallers

\* The local variables of one call: where it stands, the method, its arguments,
\* the dict and the prompt it sent, the chain's answer and what it returned.
IdleFrame ==
    [pc |-> "idle", op |-> "none", args |-> PyNone, sent |-> <<>>, prompt |-> <<>>,
     response |-> NoResult, result |-> NoResult]

---------------------------------------------------------------------------
(* The state machine: one call on the ChatOPT instance *)

VARIABLES
    args,           \* the arguments of the call
    chain_outcome,  \* what the chain's run does for this call
    pydantic_v1,    \* whether the installed pydantic is 1.x (lax coercion) or 2.x
    op,             \* "none" before the call, then the operation that ran
    sent,           \* the dict passed to chain.run
    prompt,         \* the prompt the model received
    result,         \* what the operation returned to its caller, or raised
    chat_opt,       \* the attributes of the one ChatOPT instance of the application
    calls           \* the frame of each caller, for the calls that overlap

vars == <<args, chain_outcome, pydantic_v1, op, sent, prompt, result, chat_opt, calls>>

Init ==
    /\ \/ args \in Arguments /\ chain_outcome \in FewOutcomes
       \/ args = PlainArguments /\ chain_outcome \in ChainOutcomes
    /\ pydantic_v1 \in BOOLEAN
    /\ op = "none"
    /\ sent = <<>>
    /\ prompt = <<>>
    /\ result = NoResult
    /\ chat_opt = NewChatOPT
    /\ calls = [c \in CallIds |-> IdleFrame]

GenerateQuestions ==
    /\ op = "none"
    /\ op' = "questions"
    /\ sent' = ChainInputs(args)
    /\ prompt' = FormatPrompt("questions_prompt", ChainInputs(args))
    /\ result' = GenerateQuestionsResult(chain_outcome)
    /\ UNCHANGED <<args, chain_outcome, pydantic_v1, chat_opt, calls>>

GenerateMasterplan ==
    /\ op = "none"
    /\ op' = "masterplan"
    /\ sent' = ChainInputs(args)
    /\ prompt' = FormatPrompt("masterplan_prompt", ChainInputs(args))
    /\ result' = GenerateMasterplanResult(chain_outcome, pydantic_v1)
    /\ UNCHANGED <<args, chain_outcome, pydantic_v1, chat_opt, calls>>

Next == GenerateQuestions \/ GenerateMasterplan

Spec == Init /\ [][Next]_vars

---------------------------------------------------------------------------
(* The state machine: overlapping calls on the one ChatOPT instance *)

Operations == {"questions", "masterplan"}
CallArguments ==
    { PlainArguments,
      [mission_statement |-> PyStr(<<>>), company_name |-> PyNone,
       industry |-> PyStr(<<"a","c","m","e">>), business_size |-> PyNone] }
CallOutcomes == FewOutcomes \cup { Return(<<" ","w","h","y"," ">>) }

\* self.questions_prompt or self.masterplan_prompt, through the chain of the method.
PromptOf(inst, o) == IF o = "questions" THEN inst.questions_prompt ELSE inst.masterplan_prompt

\* The variable `response` that call c reads after chain.run: a local of its
\* own frame.
SharedResponse(cs, c) ==
    CHOOSE y \in { IF others = {} THEN cs[c].response
                   ELSE cs[CHOOSE d \in others : \A e \in others : d >= e].response :
                   others \in { { d \in DOMAIN cs : d # c /\ cs[d].response.kind # "none" } } } : TRUE
FrameResponse(cs, c) == cs[c].response

\* The body of the method after chain.run, on the outcome of that call.
ResultOf(o, outcome, v1) ==
    IF o = "questions" THEN GenerateQuestionsResult(outcome)
    ELSE GenerateMasterplanResult(outcome, v1)

InitCalls ==
    /\ args = PlainArguments
    /\ chain_outcome = NoResult
    /\ pydantic_v1 \in BOOLEAN
    /\ op = "none"
    /\ sent = <<>>
    /\ prompt = <<>>
    /\ result = NoResult
    /\ chat_opt = NewChatOPT
    /\ calls = [c \in CallIds |-> IdleFrame]

\* A caller enters generate_questions or generate_masterplan: the inputs are
\* built and the prompt of the method goes to the model.
Invoke(c) ==
    /\ calls[c].pc = "idle"
    /\ \E o \in Operations, a \in CallArguments :
          calls' = [calls EXCEPT ![c] =
                      [pc |-> "chain", op |-> o, args |-> a, sent |-> ChainInputs(a),
                       prompt |-> FormatPrompt(PromptOf(chat_opt, o), ChainInputs(a)),
                       response |-> NoResult, result |-> NoResult]]
    /\ UNCHANGED <<args, chain_outcome, pydantic_v1, op, sent, prompt, result, chat_opt>>

\* chain.run of call c ends: it returns a text or raises.
ChainRun(c) ==
    /\ calls[c].pc = "chain"
    /\ \E outcome \in CallOutcomes :
          calls' = [calls EXCEPT ![c].pc = "extract", ![c].response = outcome]
    /\ UNCHANGED <<args, chain_outcome, pydantic_v1, op, sent, prompt, result, chat_opt>>

\* The rest of the method of call c: the extraction and the handlers.
Extract(c) ==
    /\ calls[c].pc = "extract"
    /\ calls' = [calls EXCEPT ![c].pc = "done",
                              ![c].result = ResultOf(calls[c].op, FrameResponse(calls, c), pydantic_v1)]
    /\ UNCHANGED <<args, chain_outcome, pydantic_v1, op, sent, prompt, result, chat_opt>>

\* The endpoint hands the result to its caller; the frame is gone.
Deliver(c) ==
    /\ calls[c].pc = "done"
    /\ calls' = [calls EXCEPT ![c] = IdleFrame]
    /\ UNCHANGED <<args, chain_outcome, pydantic_v1, op, sent, prompt, result, chat_opt>>

NextCalls == \E c \in CallIds : Invoke(c) \/ ChainRun(c) \/ Extract(c) \/ Deliver(c)

SpecCalls == InitCalls /\ [][NextCalls]_vars

---------------------------------------------------------------------------
(* Properties *)

QuestionsDone == op = "questions"
MasterplanDone == op = "masterplan"
ChainReturned == chain_outcome.kind = "return"
response == chain_outcome.value

\* s without its leading and trailing whitespace, by the positions of its
\* first and last character that is no whitespace.
Trimmed(s) ==
    LET solid == { i \in 1..Len(s) : s[i] \notin Whitespace }
    IN  IF solid = {} THEN <<>>
        ELSE SubSeq(s, CHOOSE i \in solid : \A k \in solid : i <= k,
                       CHOOSE i \in solid : \A k \in solid : i >= k)

\* The array marker stands at position i of s: '[', whitespace, '{', whitespace, "name":
MarkerOccursAt(s, i) ==
    /\ s[i] = "["
    /\ \E j \in (i + 1)..Len(s) :
          /\ s[j] = "{"
          /\ \A m \in (i + 1)..(j - 1) : s[m] \in Whitespace
          /\ \E k \in (j + 1)..Len(s) :
                /\ MatchAt(s, k, <<"\"","n","a","m","e","\"",":">>)
                /\ \A m \in (j + 1)..(k - 1) : s[m] \in Whitespace
HasMarker(s) == \E i \in 1..Len(s) : MarkerOccursAt(s, i)

IsPrefix(a, b) == Len(a) <= Len(b) /\ SubSeq(b, 1, Len(a)) = a

SpecObjects(specs) == [n \in 1..Len(specs) |-> SpecObject(specs[n])]

\* Texts "<markdown><json-array>" of one or more valid specification objects,
\* with the markdown and the specifications they state.
WellFormedCases ==
    { [text |-> md \o JsonText(PyList(SpecObjects(specs)), sp), markdown |-> md, specs |-> specs] :
        md \in Prefixes, specs \in SeqsUpTo(ValidSpecs, MaxSpecs) \ {<<>>}, sp \in Spacings }

\* C1: a text "<markdown><json-array>" of valid specification objects, with any
\* string field values and nested endpoints arrays, yields the markdown stripped
\* and the specifications of the array, in order and with their field values.
C1_WellFormedArrayExtracted ==
    MasterplanDone /\ ChainReturned =>
        \A c \in WellFormedCases :
            c.text = response =>
                result = Return(MasterplanResponse(Trimmed(c.markdown), c.specs))

\* C2: generate_questions never returns an empty list, whatever the model answers.
C2_QuestionsNeverEmpty ==
    QuestionsDone =>
        /\ result.kind = "return"
        /\ result.value.t = "list"
        /\ Len(result.value.v) >= 1

\* C3: when the extraction fails after the array marker was found (invalid JSON,
\* an element that cannot be coerced, or any other exception), the result is the
\* full raw text as markdown and no specification.
C3_FailedExtractionKeepsRawText ==
    /\ MasterplanDone /\ ChainReturned
    /\ HasMarker(response)
    /\ MasterplanParse(response, pydantic_v1).kind = "raise"
    => result = Return(MasterplanResponse(response, <<>>))

LacksField(obj) == \E k \in RequiredKeys : ~DictHas(obj.v, k)

\* Texts with an array of records of which at least one lacks a required field.
MissingFieldCases ==
    { md \o JsonText(PyList(arr), sp) :
        md \in Prefixes, sp \in Spacings,
        arr \in { a \in SeqsUpTo(ArrayElements, MaxSpecs) \cup MissingFieldArrays :
                    /\ \A n \in 1..Len(a) : a[n].t = "dict"
                    /\ \E n \in 1..Len(a) : LacksField(a[n]) } }

\* C4: when a record of the array lacks a required field, at any position and
\* whatever the other records, the result is the full original text as markdown
\* and an empty specification list: no valid record is kept.
C4_AllOrNothing ==
    MasterplanDone /\ ChainReturned /\ response \in MissingFieldCases
        => result = Return(MasterplanResponse(response, <<>>))

C4_Witness ==
    /\ MasterplanDone /\ ChainReturned
    /\ response = <<"p","l","a","n">>
                    \o JsonText(PyList(<<SpecObject(SpecOrders),
                                         Without(SpecObject(SpecMail), KeyDescription)>>), <<>>)
    /\ result = Return(MasterplanResponse(response, <<>>))

\* JSON arrays of strings, with the texts that state them.
QuestionCases ==
    { [text |-> pre \o JsonText(a, sp) \o post, list |-> a] :
        a \in QuestionArrays, sp \in Spacings, pre \in {<<>>, <<"\n">>}, post \in {<<>>, <<" ">>} }

\* C5: a response that is a JSON array of strings is returned as that array:
\* same elements, same order, nothing added, dropped or trimmed.
C5_StringArrayReturnedUnchanged ==
    QuestionsDone /\ ChainReturned =>
        \A c \in QuestionCases : c.text = response => result = Return(c.list)

C5_Witness ==
    /\ QuestionsDone /\ ChainReturned
    /\ response = JsonText(PyList(<<PyStr(<<" ","w","h","y"," ">>), PyStr(<<"q">>)>>), <<"\n"," ">>)
    /\ result = Return(PyList(<<PyStr(<<" ","w","h","y"," ">>), PyStr(<<"q">>)>>))

\* C6: a raw text without the array marker is returned as the markdown,
\* character for character, with an empty specification list.
C6_NoMarkerKeepsText ==
    MasterplanDone /\ ChainReturned /\ ~HasMarker(response)
        => result = Return(MasterplanResponse(response, <<>>))

C6_Witness ==
    /\ MasterplanDone /\ ChainReturned
    /\ ~HasMarker(response)
    /\ Len(response) > 0
    /\ response[1] = " " /\ response[Len(response)] = "]"
    /\ result.value.markdown_content = response
    /\ result.value.api_specs = <<>>

\* C7, as claimed: with a non-empty specification list the markdown is a prefix
\* of the raw text that ends before the array's start, and holds no array marker.
C7_MarkdownIsPrefix ==
    MasterplanDone /\ ChainReturned /\ result.kind = "return" /\ Len(result.value.api_specs) > 0
        => /\ IsPrefix(result.value.markdown_content, response)
           /\ \E i \in 1..Len(response) :
                 MarkerOccursAt(response, i) /\ Len(result.value.markdown_content) < i
           /\ ~HasMarker(result.value.markdown_content)

\* C7, amended: with a non-empty specification list the markdown is the raw text
\* before the array's start with its surrounding whitespace removed, and holds
\* no array marker.
C7_MarkdownIsStrippedPrefix ==
    MasterplanDone /\ ChainReturned /\ result.kind = "return" /\ Len(result.value.api_specs) > 0
        => /\ \E i \in 1..Len(response) :
                 /\ MarkerOccursAt(response, i)
                 /\ result.value.markdown_content = Trimmed(SubSeq(response, 1, i - 1))
           /\ ~HasMarker(result.value.markdown_content)

C7_Witness ==
    /\ MasterplanDone /\ ChainReturned /\ result.kind = "return"
    /\ Len(result.value.api_specs) = 2
    /\ response[1] = " "
    /\ result.value.markdown_content = <<"s","e","e"," ","[","a","]">>

\* C8: neither operation raises to its caller; when the chain (or anything else)
\* raises, generate_questions returns the one-element error list and
\* generate_masterplan a markdown that states the error with the exception's
\* message, and no specification.
C8_NeverRaises ==
    /\ op # "none" => result.kind = "return"
    /\ QuestionsDone /\ QuestionsBody(chain_outcome).kind = "raise" =>
          result.value =
              PyList(<<PyStr(<<"An error occurred while generating questions. Please try again.">>)>>)
    /\ MasterplanDone /\ MasterplanBody(chain_outcome, pydantic_v1).kind = "raise" =>
          result.value =
              [markdown_content |-> <<"An error occurred while generating the masterplan: ">>
                                      \o MasterplanBody(chain_outcome, pydantic_v1).exc.msg,
               api_specs |-> <<>>]
    /\ op # "none" /\ chain_outcome.kind = "raise" =>
          IF QuestionsDone
          THEN result.value.t = "list" /\ Len(result.value.v) = 1
          ELSE result.value =
                  [markdown_content |-> <<"An error occurred while generating the masterplan: ">>
                                          \o chain_outcome.exc.msg,
                   api_specs |-> <<>>]

C8_Witness ==
    /\ MasterplanDone
    /\ chain_outcome = Raise("RuntimeError", <<"Connection error.">>)
    /\ result = Return([markdown_content |-> <<"An error occurred while generating the masterplan: ",
                                              "Connection error.">>,
                        api_specs |-> <<>>])

\* The lines of s: the pieces between its newlines, by the newlines' positions.
NewlinesIn(s) == { i \in 1..Len(s) : s[i] = "\n" }
LineOf(s, n) ==
    LET before == { i \in NewlinesIn(s) : Cardinality({ j \in NewlinesIn(s) : j <= i }) = n - 1 }
        after  == { i \in NewlinesIn(s) : Cardinality({ j \in NewlinesIn(s) : j <= i }) = n }
        first  == IF n = 1 THEN 1 ELSE (CHOOSE i \in before : TRUE) + 1
        last   == IF after = {} THEN Len(s) ELSE (CHOOSE i \in after : TRUE) - 1
    IN  SubSeq(s, first, last)
TrimmedLines(s) == [n \in 1..(Cardinality(NewlinesIn(s)) + 1) |-> PyStr(Trimmed(LineOf(s, n)))]
Discarded(l) == Len(l.v) = 0 \/ l.v[1] = "[" \/ l.v[Len(l.v)] = "]"
ExpectedQuestions(s) == SelectSeq(TrimmedLines(s), LAMBDA l : ~Discarded(l))

\* C9: for a response that is no JSON, generate_questions returns its lines,
\* trimmed and in order, without those that are empty after trimming, start
\* with '[' or end with ']'; when none remains, the one-element placeholder list.
C9_LineFallback ==
    QuestionsDone /\ ChainReturned /\ ~JsonLoads(response).ok =>
        result = Return(IF Len(ExpectedQuestions(response)) > 0
                        THEN PyList(ExpectedQuestions(response))
                        ELSE PyList(<<PyStr(<<"Could not generate questions. Please try again.">>)>>))

C9_Witness ==
    /\ QuestionsDone /\ ChainReturned
    /\ response = <<"[","q","\n"," ","w","h","y"," ">>
    /\ result = Return(PyList(<<PyStr(<<"w","h","y">>)>>))

OptionalFields == {"company_name", "industry", "business_size"}
TemplateOf(o) == IF o = "questions" THEN "questions_prompt" ELSE "masterplan_prompt"

\* C10: in both operations each optional argument that is None or the empty
\* string goes to the model as "Not specified", every other one unchanged, and
\* the mission statement always unchanged; the prompt is rendered from these.
C10_NotSpecifiedDefaults ==
    op # "none" =>
        /\ sent.mission_statement = args.mission_statement
        /\ \A f \in OptionalFields :
              sent[f] = IF args[f] = PyNone \/ args[f] = PyStr(<<>>)
                        THEN PyStr(<<"Not specified">>) ELSE args[f]
        /\ prompt = <<TemplateOf(op), "- Mission Statement/Operating Model: ">>
                      \o args.mission_statement.v
                      \o <<"- Company Name: ">> \o sent.company_name.v
                      \o <<"- Industry: ">> \o sent.industry.v
                      \o <<"- Business Size: ">> \o sent.business_size.v
                      \o <<"(instructions)">>

C10_Witness ==
    /\ MasterplanDone
    /\ args = [mission_statement |-> PyStr(<<>>), company_name |-> PyNone,
               industry |-> PyStr(<<>>), business_size |-> PyStr(<<"a","c","m","e">>)]
    /\ prompt = <<"masterplan_prompt", "- Mission Statement/Operating Model: ",
                  "- Company Name: ", "Not specified", "- Industry: ", "Not specified",
                  "- Business Size: ", "a", "c", "m", "e", "(instructions)">>

\* C11: no state is carried between calls: whatever calls came before or
\* overlap on the shared instance, a finished call whose chain returned a text
\* has the result that text gives to a single call made in isolation, and the
\* attributes of the instance are those it was constructed with.
C11_NoStateBetweenCalls ==
    /\ chat_opt = NewChatOPT
    /\ \A c \in CallIds :
          calls[c].pc = "done" /\ calls[c].response.kind = "return" =>
             calls[c].result =
                IF calls[c].op = "questions"
                THEN GenerateQuestionsResult(Return(calls[c].response.value))
                ELSE GenerateMasterplanResult(Return(calls[c].response.value), pydantic_v1)

\* Two overlapping calls, of the two methods, with different answers: the
\* second holds its answer while the first finishes with the result of its own.
C11_Witness ==
    /\ calls[1].pc = "done" /\ calls[1].op = "questions"
    /\ calls[1].response = Return(<<" ","w","h","y"," ">>)
    /\ calls[1].result = Return(PyList(<<PyStr(<<"w","h","y">>)>>))
    /\ calls[2].pc = "extract" /\ calls[2].op = "masterplan"
    /\ calls[2].response = Return(OneArray)

\* JSON values that are no list, with the texts that state them.
NonListCases ==
    { [text |-> pre \o JsonText(x, sp) \o post, value |-> x] :
        x \in NonListValues, sp \in Spacings, pre \in {<<>>, <<"\n">>}, post \in {<<>>, <<" ">>} }

\* C12: for a response that is a JSON object, string, number, boolean or null,
\* generate_questions returns the one-element placeholder list, not the lines
\* of the text.
C12_NonListJsonGivesPlaceholder ==
    QuestionsDone /\ ChainReturned =>
        \A c \in NonListCases : c.text = response =>
            result = Return(PyList(<<PyStr(<<"Could not generate questions. Please try again.">>)>>))

\* An object over several lines, each of which the line fallback would keep.
C12_Witness ==
    /\ QuestionsDone /\ ChainReturned
    /\ response = <<"{","\n"," ","\"","q","\"",":","[","\n"," ","\"","w","\"",",","\n"," ","7","]","}"," ">>
    /\ ExpectedQuestions(response) =
          << PyStr(<<"{">>), PyStr(<<"\"","q","\"",":","[">>), PyStr(<<"\"","w","\"",",">>),
             PyStr(<<"7","]","}">>) >>
    /\ result = Return(PyList(<<PyStr(<<"Could not generate questions. Please try again.">>)>>))

=============================================================================
